---- MODULE Spec2Model ----
(***************************************************************************)
(* Intraday candlestick widget (symbol-intraday-candlestick-widget.tsx):   *)
(* client-side aggregation of raw intraday ticks into OHLCV candles and    *)
(* the refresh lifecycle around it (host-delivered result, one-shot        *)
(* fallback fetch, manual refresh, periodic auto-refresh).                 *)
(*                                                                         *)
(* React state hooks are the variables.  A handler and the render and      *)
(* effects it triggers form one action: the memoised derivations           *)
(* (candleData, legendMap) and the effects (auto-fetch fallback, default   *)
(* legend, symbol sync, auto-refresh timer) run to completion before the   *)
(* next event is processed.                                                *)
(*                                                                         *)
(* Encoding of JavaScript values:                                          *)
(*   null / undefined object      NULL                                     *)
(*   nullable scalar              None (= <<>>) or Some(v) (= <<v>>)       *)
(*   string                       sequence of one-character strings        *)
(*   missing symbol / securityId  "" / 0 (the code only tests their        *)
(*                                truthiness)                              *)
(***************************************************************************)
EXTENDS Integers, Sequences, FiniteSets, TLC

NULL == [null |-> TRUE]
None == <<>>
Some(v) == <<v>>

Max(a, b) == IF a >= b THEN a ELSE b
Min(a, b) == IF a <= b THEN a ELSE b

(***************************************************************************)
(* Timeframes                                                              *)
(***************************************************************************)
TIMEFRAMES == <<"1m", "3m", "5m", "10m", "30m", "1h">>

TimeframeValues == {TIMEFRAMES[i] : i \in 1..Len(TIMEFRAMES)}

TIMEFRAME_MINUTES(tf) ==
  CASE tf = "1m" -> 1
    [] tf = "3m" -> 3
    [] tf = "5m" -> 5
    [] tf = "10m" -> 10
    [] tf = "30m" -> 30
    [] tf = "1h" -> 60

(***************************************************************************)
(* Raw records.  date is Some(day number since the epoch) or None;         *)
(* lastSaleTime is Some([h, m, s]) or None; price and volume are Some(n)   *)
(* or None.                                                                *)
(***************************************************************************)
IntradayItem(d, t, p, v) ==
  [date |-> d, lastSaleTime |-> t, securityLastPrice |-> p, lastSellVolume |-> v]

HMS(h, m, s) == [h |-> h, m |-> m, s |-> s]

\* new Date(`${dateStr}T${lastSaleTime}`).getTime(): milliseconds, or None
\* for an Invalid Date (NaN).  24:00:00 is the end of the day.
DateGetTime(day, t) ==
  IF \/ t.h \in 0..23 /\ t.m \in 0..59 /\ t.s \in 0..59
     \/ t.h = 24 /\ t.m = 0 /\ t.s = 0
    THEN Some((day * 86400 + t.h * 3600 + t.m * 60 + t.s) * 1000)
    ELSE None

\* Variant: a record without a date is taken to be of day 0.
parseIntradayTime_DateOptional(item) ==
  IF item.lastSaleTime = None THEN None
  ELSE LET day == IF item.date = None THEN 0 ELSE item.date[1]
           dt == DateGetTime(day, item.lastSaleTime[1])
       IN IF dt = None THEN None ELSE Some(dt[1] \div 1000)

parseIntradayTime(item) ==
  IF item.lastSaleTime = None \/ item.date = None THEN None
  ELSE LET dt == DateGetTime(item.date[1], item.lastSaleTime[1])
       IN IF dt = None THEN None ELSE Some(dt[1] \div 1000)

\* Variant: a record without a price is kept with price 0.
RECURSIVE ValidTicks_KeepsPriceless(_)
ValidTicks_KeepsPriceless(items) ==
  IF items = <<>> THEN <<>>
  ELSE LET item == Head(items)
           ts == parseIntradayTime(item)
           rest == ValidTicks_KeepsPriceless(Tail(items))
       IN IF ts # None
            THEN <<[ts |-> ts[1],
                    price |-> IF item.securityLastPrice = None THEN 0
                              ELSE item.securityLastPrice[1],
                    volume |-> IF item.lastSellVolume = None THEN 0
                               ELSE item.lastSellVolume[1]]>> \o rest
            ELSE rest

\* .map(...).filter(x => x !== null)
RECURSIVE ValidTicks(_)
ValidTicks(items) ==
  IF items = <<>> THEN <<>>
  ELSE LET item == Head(items)
           ts == parseIntradayTime(item)
           rest == ValidTicks(Tail(items))
       IN IF ts # None /\ item.securityLastPrice # None
            THEN <<[ts |-> ts[1],
                    price |-> item.securityLastPrice[1],
                    volume |-> IF item.lastSellVolume = None THEN 0
                               ELSE item.lastSellVolume[1]]>> \o rest
            ELSE rest

\* Variant: an unstable sort that puts the later of two equal timestamps
\* first.
RECURSIVE InsertByTs_Unstable(_, _)
InsertByTs_Unstable(sorted, x) ==
  IF sorted = <<>> THEN <<x>>
  ELSE IF Head(sorted).ts < x.ts
         THEN <<Head(sorted)>> \o InsertByTs_Unstable(Tail(sorted), x)
         ELSE <<x>> \o sorted

\* .sort((a, b) => a.ts - b.ts): Array.prototype.sort is stable.
RECURSIVE InsertByTs(_, _)
InsertByTs(sorted, x) ==
  IF sorted = <<>> THEN <<x>>
  ELSE IF Head(sorted).ts <= x.ts
         THEN <<Head(sorted)>> \o InsertByTs(Tail(sorted), x)
         ELSE <<x>> \o sorted

\* Variant: the ticks stay in input order.
SortByTs_InputOrder(s) == s

RECURSIVE SortByTs(_)
SortByTs(s) ==
  IF s = <<>> THEN <<>>
  ELSE InsertByTs(SortByTs(SubSeq(s, 1, Len(s) - 1)), s[Len(s)])

\* Variant: Math.ceil in place of Math.floor.
BucketOf_RoundsUp(ts, bucketSeconds) ==
  ((ts + bucketSeconds - 1) \div bucketSeconds) * bucketSeconds

BucketOf(ts, bucketSeconds) == (ts \div bucketSeconds) * bucketSeconds

Candle(time, open, high, low, close, volume) ==
  [time |-> time, open |-> open, high |-> high, low |-> low,
   close |-> close, volume |-> volume]

\* Variant: the loop never raises high.
RECURSIVE AggregateLoop_NoHighUpdate(_, _, _, _, _)
AggregateLoop_NoHighUpdate(valid, i, bucketSeconds, cur, candles) ==
  IF i > Len(valid) THEN Append(candles, cur)
  ELSE LET tick == valid[i]
           bucket == BucketOf(tick.ts, bucketSeconds)
       IN IF bucket # cur.time
            THEN AggregateLoop_NoHighUpdate(valid, i + 1, bucketSeconds,
                   Candle(bucket, tick.price, tick.price, tick.price,
                          tick.price, tick.volume),
                   Append(candles, cur))
            ELSE AggregateLoop_NoHighUpdate(valid, i + 1, bucketSeconds,
                   Candle(cur.time, cur.open, cur.high,
                          Min(cur.low, tick.price), tick.price,
                          cur.volume + tick.volume),
                   candles)

\* Variant: the loop overwrites the volume in place of adding to it.
RECURSIVE AggregateLoop_VolumeOverwritten(_, _, _, _, _)
AggregateLoop_VolumeOverwritten(valid, i, bucketSeconds, cur, candles) ==
  IF i > Len(valid) THEN Append(candles, cur)
  ELSE LET tick == valid[i]
           bucket == BucketOf(tick.ts, bucketSeconds)
       IN IF bucket # cur.time
            THEN AggregateLoop_VolumeOverwritten(valid, i + 1, bucketSeconds,
                   Candle(bucket, tick.price, tick.price, tick.price,
                          tick.price, tick.volume),
                   Append(candles, cur))
            ELSE AggregateLoop_VolumeOverwritten(valid, i + 1, bucketSeconds,
                   Candle(cur.time, cur.open, Max(cur.high, tick.price),
                          Min(cur.low, tick.price), tick.price, tick.volume),
                   candles)

\* Variant: a new bucket starts with volume 0 instead of its first tick's.
RECURSIVE AggregateLoop_FirstVolumeDropped(_, _, _, _, _)
AggregateLoop_FirstVolumeDropped(valid, i, bucketSeconds, cur, candles) ==
  IF i > Len(valid) THEN Append(candles, cur)
  ELSE LET tick == valid[i]
           bucket == BucketOf(tick.ts, bucketSeconds)
       IN IF bucket # cur.time
            THEN AggregateLoop_FirstVolumeDropped(valid, i + 1, bucketSeconds,
                   Candle(bucket, tick.price, tick.price, tick.price,
                          tick.price, 0),
                   Append(candles, cur))
            ELSE AggregateLoop_FirstVolumeDropped(valid, i + 1, bucketSeconds,
                   Candle(cur.time, cur.open, Max(cur.high, tick.price),
                          Min(cur.low, tick.price), tick.price,
                          cur.volume + tick.volume),
                   candles)

\* Variant: close stays at the first price of the bucket.
RECURSIVE AggregateLoop_CloseNotUpdated(_, _, _, _, _)
AggregateLoop_CloseNotUpdated(valid, i, bucketSeconds, cur, candles) ==
  IF i > Len(valid) THEN Append(candles, cur)
  ELSE LET tick == valid[i]
           bucket == BucketOf(tick.ts, bucketSeconds)
       IN IF bucket # cur.time
            THEN AggregateLoop_CloseNotUpdated(valid, i + 1, bucketSeconds,
                   Candle(bucket, tick.price, tick.price, tick.price,
                          tick.price, tick.volume),
                   Append(candles, cur))
            ELSE AggregateLoop_CloseNotUpdated(valid, i + 1, bucketSeconds,
                   Candle(cur.time, cur.open, Max(cur.high, tick.price),
                          Min(cur.low, tick.price), cur.close,
                          cur.volume + tick.volume),
                   candles)

\* The loop of aggregateCandles from tick i on; cur is the open accumulator.
RECURSIVE AggregateLoop(_, _, _, _, _)
AggregateLoop(valid, i, bucketSeconds, cur, candles) ==
  IF i > Len(valid) THEN Append(candles, cur)
  ELSE LET tick == valid[i]
           bucket == BucketOf(tick.ts, bucketSeconds)
       IN IF bucket # cur.time
            THEN AggregateLoop(valid, i + 1, bucketSeconds,
                   Candle(bucket, tick.price, tick.price, tick.price,
                          tick.price, tick.volume),
                   Append(candles, cur))
            ELSE AggregateLoop(valid, i + 1, bucketSeconds,
                   Candle(cur.time, cur.open, Max(cur.high, tick.price),
                          Min(cur.low, tick.price), tick.price,
                          cur.volume + tick.volume),
                   candles)

\* Variant: the valid ticks are not sorted.
aggregateCandles_Unsorted(items, timeframe) ==
  LET minutes == TIMEFRAME_MINUTES(timeframe)
      bucketSeconds == minutes * 60
      valid == ValidTicks(items)
  IN IF Len(valid) = 0 THEN <<>>
     ELSE AggregateLoop(valid, 2, bucketSeconds,
            Candle(BucketOf(valid[1].ts, bucketSeconds), valid[1].price,
                   valid[1].price, valid[1].price, valid[1].price,
                   valid[1].volume),
            <<>>)

aggregateCandles(items, timeframe) ==
  LET minutes == TIMEFRAME_MINUTES(timeframe)
      bucketSeconds == minutes * 60
      valid == SortByTs(ValidTicks(items))
  IN IF Len(valid) = 0 THEN <<>>
     ELSE AggregateLoop(valid, 2, bucketSeconds,
            Candle(BucketOf(valid[1].ts, bucketSeconds), valid[1].price,
                   valid[1].price, valid[1].price, valid[1].price,
                   valid[1].volume),
            <<>>)

(***************************************************************************)
(* Widget data and the extraction of a tool result                         *)
(***************************************************************************)
WidgetData(symbol, securityId, hasItems, items) ==
  [symbol |-> symbol, securityId |-> securityId, hasItems |-> hasItems,
   items |-> items]

\* Text content of a tool result: absent, not JSON, or JSON text.
TextNone == [kind |-> "none"]
TextInvalid == [kind |-> "invalid"]
TextJson(v) == [kind |-> "json", value |-> v]

\* JSON values: null, an object, or the double wrapping {text: "<json>"}.
JNull == [json |-> "null"]
JObject(o) == [json |-> "object", value |-> o]
JWrapper(innerText) == [json |-> "wrapper", text |-> innerText]

CallToolResult(structuredContent, text) ==
  [structuredContent |-> structuredContent, text |-> text]

\* JSON.parse: Some(value), or None when it throws.
JSONParse(text) == IF text.kind = "json" THEN Some(text.value) ELSE None

\* `parsed as IntradayCandlestickWidgetData`: no validation at all.
ParsedAsData(v) ==
  CASE v.json = "null" -> NULL
    [] v.json = "object" -> v.value
    [] v.json = "wrapper" -> WidgetData(<<>>, 0, FALSE, <<>>)

extractIntradayData(callToolResult) ==
  IF callToolResult = NULL THEN NULL
  ELSE IF /\ callToolResult.structuredContent # NULL
          /\ callToolResult.structuredContent.hasItems
         THEN callToolResult.structuredContent
  ELSE IF callToolResult.text.kind = "none" THEN NULL
  ELSE LET parsed == JSONParse(callToolResult.text)
       IN IF parsed = None THEN NULL
          ELSE IF parsed[1].json = "wrapper"
                 THEN LET inner == JSONParse(parsed[1].text)
                      IN IF inner = None THEN NULL ELSE ParsedAsData(inner[1])
                 ELSE ParsedAsData(parsed[1])

(***************************************************************************)
(* Derived view state (useMemo)                                            *)
(***************************************************************************)
RECURSIVE ChartCandles(_)
ChartCandles(candles) ==
  IF candles = <<>> THEN <<>>
  ELSE LET c == Head(candles)
       IN <<[time |-> c.time, open |-> c.open, high |-> c.high,
             low |-> c.low, close |-> c.close]>> \o ChartCandles(Tail(candles))

\* Variant: the memo misses the selectedTimeframe dependency and keeps the
\* candles of the initial timeframe.
CandleDataOf_StaleTimeframe(d, timeframe) ==
  IF d = NULL \/ ~d.hasItems \/ Len(d.items) = 0 THEN <<>>
  ELSE ChartCandles(aggregateCandles(d.items, "5m"))

CandleDataOf(d, timeframe) ==
  IF d = NULL \/ ~d.hasItems \/ Len(d.items) = 0 THEN <<>>
  ELSE ChartCandles(aggregateCandles(d.items, timeframe))

\* Variant: the change is taken relative to the close.
LegendValuesOf_RelativeToClose(c) ==
  [open |-> c.open, high |-> c.high, low |-> c.low, close |-> c.close,
   change |-> IF c.close # 0
                THEN Some([num |-> (c.close - c.open) * 100, den |-> c.close])
                ELSE None,
   volume |-> c.volume]

\* change = (close - open) / open * 100, kept as the exact fraction num/den.
LegendValuesOf(c) ==
  [open |-> c.open, high |-> c.high, low |-> c.low, close |-> c.close,
   change |-> IF c.open # 0
                THEN Some([num |-> (c.close - c.open) * 100, den |-> c.open])
                ELSE None,
   volume |-> c.volume]

EmptyMap == [t \in {} |-> NULL]

RECURSIVE MapSetAll(_, _)
MapSetAll(map, candles) ==
  IF candles = <<>> THEN map
  ELSE LET c == Head(candles)
       IN MapSetAll([t \in DOMAIN map \cup {c.time} |->
                       IF t = c.time THEN LegendValuesOf(c) ELSE map[t]],
                    Tail(candles))

LegendMapOf(d, timeframe) ==
  IF d = NULL \/ ~d.hasItems THEN EmptyMap
  ELSE MapSetAll(EmptyMap, aggregateCandles(d.items, timeframe))

(***************************************************************************)
(* Strings                                                                 *)
(***************************************************************************)
RECURSIVE TrimStart(_)
TrimStart(s) == IF s # <<>> /\ Head(s) = " " THEN TrimStart(Tail(s)) ELSE s

RECURSIVE TrimEnd(_)
TrimEnd(s) ==
  IF s # <<>> /\ s[Len(s)] = " " THEN TrimEnd(SubSeq(s, 1, Len(s) - 1)) ELSE s

Trim(s) == TrimEnd(TrimStart(s))

(***************************************************************************)
(* Requests                                                                *)
(***************************************************************************)
ToolName == "get-symbol-intraday-candlestick-data"

\* The argument of handleRefresh is a string or a number.
Str(s) == [str |-> s]
Num(n) == [num |-> n]
Truthy(v) == IF "num" \in DOMAIN v THEN v.num # 0 ELSE v.str # <<>>

\* origin names the call site of callServerTool; arguments is <<>> for {}
\* and <<v>> for {securityIdOrSymbol: v}.
Request(origin, arguments) ==
  [origin |-> origin, name |-> ToolName, arguments |-> arguments]

FallbackRequest == Request("fallback", <<>>)

Reject == [rejected |-> TRUE]

NoError == "null"

AUTO_REFRESH_INTERVAL == 30 * 60 * 1000

(***************************************************************************)
(* Inputs: the payloads the server tool returns, the tool results the host *)
(* delivers, and what the user types.                                      *)
(***************************************************************************)
Tick(h, m, s, price, volume) ==
  IntradayItem(Some(0), Some(HMS(h, m, s)), Some(price), volume)

SymA == <<"A">>
SymB == <<"B">>

DataA1 ==
  WidgetData(SymA, 1, TRUE,
             <<Tick(9, 30, 0, 100, Some(10)), Tick(9, 31, 30, 101, Some(5)),
               Tick(9, 35, 0, 99, Some(7))>>)

\* The same security before its first trade of the day.
DataA0 == WidgetData(SymA, 1, TRUE, <<>>)

DataB ==
  WidgetData(SymB, 2, TRUE,
             <<IntradayItem(Some(0), None, Some(50), Some(1)),
               Tick(11, 0, 0, 55, Some(4)), Tick(9, 30, 0, 50, Some(2))>>)

\* A JSON object that is no payload at all (for example {"error": "..."}):
\* no symbol, no securityId, no items.
ErrorObject == WidgetData(<<>>, 0, FALSE, <<>>)

ToolResults ==
  { CallToolResult(ErrorObject, TextInvalid),
    CallToolResult(NULL, TextJson(JObject(ErrorObject))),
    CallToolResult(DataA1, TextNone),
    CallToolResult(NULL, TextJson(JWrapper(TextJson(JObject(DataA0))))),
    CallToolResult(NULL, TextJson(JObject(DataB))) }

\* What a data request settles with: a rejection or a tool result.
Responses == {Reject} \cup ToolResults

TypedSymbols == {<<" ">>, <<"B">>}

\* Requests outstanding at once.
MaxInFlight == 2

\* Raw records a payload is made of: five trades, two of them at the same
\* second, one without a volume and one with a negative volume, and one
\* record of each kind that parseIntradayTime or the price test rejects.
RawRecords ==
  { Tick(9, 30, 0, 100, Some(10)),
    Tick(9, 31, 30, 101, Some(5)),
    Tick(9, 35, 0, 99, Some(7)),
    Tick(9, 31, 30, 98, None),
    Tick(9, 35, 0, 97, Some(-5)),
    IntradayItem(Some(0), None, Some(50), Some(1)),
    IntradayItem(None, Some(HMS(9, 30, 0)), Some(50), Some(1)),
    IntradayItem(Some(0), Some(HMS(9, 30, 0)), None, Some(1)),
    IntradayItem(Some(0), Some(HMS(25, 0, 0)), Some(50), Some(1)) }

\* Records in one payload.
MaxItems == 3

\* Every payload of at most MaxItems raw records, in every order.
Payloads == UNION {[1..n -> RawRecords] : n \in 0..MaxItems}

\* Raw records for the legend: trades at prices of zero, above zero and
\* below zero, which aggregateCandles accepts alike.
LegendRecords ==
  { Tick(9, 30, 0, 0, Some(1)),
    Tick(9, 30, 30, 90, Some(2)),
    Tick(9, 31, 0, 100, Some(3)),
    Tick(9, 31, 30, -20, Some(4)),
    Tick(9, 31, 45, -10, Some(5)) }

LegendPayloads == UNION {[1..n -> LegendRecords] : n \in 0..MaxItems}

(***************************************************************************)
(* State                                                                   *)
(***************************************************************************)
VARIABLES
  data,              \* useState: IntradayCandlestickWidgetData | null
  needsAutoFetch,    \* useState: boolean
  symbolInput,       \* useState: string
  selectedTimeframe, \* useState: IntradayTimeframe
  isRefreshing,      \* useState: boolean
  refreshError,      \* useState: string | null
  legendValues,      \* useState: LegendValues | null
  candleData,        \* useMemo over (data.items, selectedTimeframe)
  legendMap,         \* useMemo over (data.items, selectedTimeframe)
  inflight,          \* call sites of the callServerTool promises not yet
                     \* settled, oldest first
  timers,            \* setInterval handles not yet cleared
  tornDown,          \* the host has called onteardown
  last,              \* the event handled last
  aggregated,        \* Some(what aggregateCandles returned in the last
                     \* render), None when the render did not call it
  loader,            \* scripts/load-json.ts: the locals of main and of the
                     \* flushBatch call in progress, and the rows written
  symbolJob          \* fetchAndStoreSymbols: its locals and the TaseSymbol
                     \* table

vars ==
  <<data, needsAutoFetch, symbolInput, selectedTimeframe, isRefreshing,
    refreshError, legendValues, candleData, legendMap, inflight, timers,
    tornDown, last, aggregated, loader, symbolJob>>

\* The variables of the widget.
widgetVars ==
  <<data, needsAutoFetch, symbolInput, selectedTimeframe, isRefreshing,
    refreshError, legendValues, candleData, legendMap, inflight, timers,
    tornDown, last, aggregated>>

\* The hook state a handler reads and writes.
Hooks ==
  [data |-> data, needsAutoFetch |-> needsAutoFetch,
   symbolInput |-> symbolInput, selectedTimeframe |-> selectedTimeframe,
   isRefreshing |-> isRefreshing, refreshError |-> refreshError,
   legendValues |-> legendValues, inflight |-> inflight, timers |-> timers,
   issued |-> None, overtook |-> FALSE]

\* An event: the handler, where it came from, how a settled request or a
\* delivered result came out and the payload extracted from it (for a
\* crosshair move, the time it reports), whether a
\* pointer selection was active when it arrived, the data request it issued
\* (None or Some(request)), the intervals it cleared and whether it was a
\* request settling with a payload while a request issued before it was
\* still outstanding.
Event(op, origin, outcome, payload, selected, request, cleared, overtook) ==
  [op |-> op, origin |-> origin, outcome |-> outcome, payload |-> payload,
   selected |-> selected, request |-> request, cleared |-> cleared,
   overtook |-> overtook]

\* The load state the widget shows.
LoadStateOf(refreshing, error, d) ==
  IF refreshing THEN "Refreshing"
  ELSE IF error # NoError THEN "Error"
  ELSE IF d = NULL THEN "WaitingForData"
  ELSE "Loaded"

LoadState == LoadStateOf(isRefreshing, refreshError, data)

(***************************************************************************)
(* Effects                                                                 *)
(***************************************************************************)
\* App always has callServerTool.
CallServerToolIsFunction == TRUE

\* Auto-fetch fallback effect.
AutoFetchEffect(h) ==
  IF ~h.needsAutoFetch THEN h
  ELSE IF ~CallServerToolIsFunction THEN [h EXCEPT !.needsAutoFetch = FALSE]
  ELSE [h EXCEPT !.needsAutoFetch = FALSE,
                 !.inflight = Append(@, FallbackRequest.origin),
                 !.issued = Some(FallbackRequest)]

\* "Set default legend to last bar" effect.
DefaultLegendEffect(cd, lm, lv) ==
  IF Len(cd) > 0 /\ lv = NULL /\ cd[Len(cd)].time \in DOMAIN lm
    THEN lm[cd[Len(cd)].time]
    ELSE lv

\* "Sync symbol input with data" effect.
SymbolSyncEffect(d, input) ==
  IF d # NULL /\ d.symbol # <<>> /\ input = <<>> THEN d.symbol ELSE input

\* Dependencies of the auto-refresh effect: data?.symbol, data?.securityId.
AutoRefreshDeps(d) == IF d = NULL THEN <<<<>>, 0>> ELSE <<d.symbol, d.securityId>>

\* The interval the auto-refresh effect creates for data d; its callback
\* closes over d.securityId.
IntervalOf(d) ==
  [symbol |-> d.symbol, securityId |-> d.securityId,
   period |-> AUTO_REFRESH_INTERVAL]

IntervalsOf(d) == IF d = NULL \/ d.symbol = <<>> THEN {} ELSE {IntervalOf(d)}

\* The intervals the cleanup of the auto-refresh effect clears when data
\* goes from dOld to dNew: the cleanup runs when the dependencies change.
AutoRefreshCleanup(dOld, dNew) ==
  IF AutoRefreshDeps(dOld) = AutoRefreshDeps(dNew) THEN {} ELSE IntervalsOf(dOld)

\* Variant: the effect returns no cleanup, so no interval is ever cleared.
AutoRefreshEffect_NoCleanup(dOld, dNew, active) ==
  IF AutoRefreshDeps(dOld) = AutoRefreshDeps(dNew) THEN active
  ELSE active \cup IntervalsOf(dNew)

\* Auto-refresh effect: when the dependencies change, the cleanup of the
\* previous run clears its interval, then the new run creates one.
AutoRefreshEffect(dOld, dNew, active) ==
  IF AutoRefreshDeps(dOld) = AutoRefreshDeps(dNew) THEN active
  ELSE (active \ AutoRefreshCleanup(dOld, dNew)) \cup IntervalsOf(dNew)

\* The values data takes, and the memoised derivations for each.
DataValues == {NULL} \cup {extractIntradayData(r) : r \in ToolResults}

CandleDataMemo ==
  [d \in DataValues, tf \in TimeframeValues |-> CandleDataOf(d, tf)]

LegendMapMemo ==
  [d \in DataValues, tf \in TimeframeValues |-> LegendMapOf(d, tf)]

\* const candles = aggregateCandles(data.items, selectedTimeframe), reached
\* only when data?.items is there.
\* Variant: a series built in an earlier render is kept, so the result
\* depends on what the widget showed before.
CandlesOf_KeepsEarlier(d, timeframe) ==
  IF d = NULL \/ ~d.hasItems THEN None
  ELSE IF aggregated # None /\ aggregated # Some(<<>>) THEN aggregated
  ELSE Some(aggregateCandles(d.items, timeframe))

CandlesOf(d, timeframe) ==
  IF d = NULL \/ ~d.hasItems THEN None
  ELSE Some(aggregateCandles(d.items, timeframe))

CandlesMemo ==
  [d \in DataValues, tf \in TimeframeValues |-> CandlesOf(d, tf)]

\* Render after a handler left the hooks as h, then run the effects.
Commit(h, op, origin, outcome, payload, selected) ==
  \E h1 \in {AutoFetchEffect(h)} :
  \E cd \in {CandleDataMemo[h1.data, h1.selectedTimeframe]} :
  \E lm \in {LegendMapMemo[h1.data, h1.selectedTimeframe]} :
     /\ data' = h1.data
     /\ needsAutoFetch' = h1.needsAutoFetch
     /\ symbolInput' = SymbolSyncEffect(h1.data, h1.symbolInput)
     /\ selectedTimeframe' = h1.selectedTimeframe
     /\ isRefreshing' = h1.isRefreshing
     /\ refreshError' = h1.refreshError
     /\ aggregated' = CandlesMemo[h1.data, h1.selectedTimeframe]
     /\ candleData' = cd
     /\ legendMap' = lm
     /\ legendValues' = DefaultLegendEffect(cd, lm, h1.legendValues)
     /\ inflight' = h1.inflight
     /\ timers' = AutoRefreshEffect(data, h1.data, h1.timers)
     /\ last' = Event(op, origin, outcome, payload, selected, h1.issued,
                      AutoRefreshCleanup(data, h1.data), h1.overtook)
     /\ UNCHANGED <<loader, symbolJob>>

(***************************************************************************)
(* Handlers                                                                *)
(***************************************************************************)
ontoolresult(h, result) ==
  LET extracted == extractIntradayData(result)
  IN IF extracted # NULL THEN [h EXCEPT !.data = extracted]
     ELSE [h EXCEPT !.needsAutoFetch = TRUE]

\* const args = {}; if (securityIdOrSymbol) args.securityIdOrSymbol = ...
RefreshArguments(securityIdOrSymbol) ==
  IF Truthy(securityIdOrSymbol) THEN <<securityIdOrSymbol>> ELSE <<>>

\* handleRefresh up to its await.
handleRefresh(h, origin, securityIdOrSymbol) ==
  [h EXCEPT !.isRefreshing = TRUE,
            !.refreshError = NoError,
            !.inflight = Append(@, origin),
            !.issued = Some(Request(origin,
                                    RefreshArguments(securityIdOrSymbol)))]

\* Variant: a failed refresh also drops the data held.
RefreshSettled_DropsData(h, response) ==
  IF response = Reject
    THEN [h EXCEPT !.refreshError = "Failed to fetch data",
                   !.data = NULL, !.isRefreshing = FALSE]
    ELSE LET fetched == extractIntradayData(response)
         IN IF fetched # NULL
              THEN [h EXCEPT !.data = fetched, !.legendValues = NULL,
                             !.isRefreshing = FALSE]
              ELSE [h EXCEPT !.refreshError = "No data found",
                             !.data = NULL, !.isRefreshing = FALSE]

\* Variant: a successful refresh leaves the legend as it is.
RefreshSettled_KeepsLegend(h, response) ==
  IF response = Reject
    THEN [h EXCEPT !.refreshError = "Failed to fetch data",
                   !.isRefreshing = FALSE]
    ELSE LET fetched == extractIntradayData(response)
         IN IF fetched # NULL
              THEN [h EXCEPT !.data = fetched, !.isRefreshing = FALSE]
              ELSE [h EXCEPT !.refreshError = "No data found",
                             !.isRefreshing = FALSE]

\* Variant: no finally block, so a rejected refresh leaves isRefreshing set.
RefreshSettled_NoFinally(h, response) ==
  IF response = Reject
    THEN [h EXCEPT !.refreshError = "Failed to fetch data"]
    ELSE LET fetched == extractIntradayData(response)
         IN IF fetched # NULL
              THEN [h EXCEPT !.data = fetched, !.legendValues = NULL,
                             !.isRefreshing = FALSE]
              ELSE [h EXCEPT !.refreshError = "No data found",
                             !.isRefreshing = FALSE]

\* handleRefresh after its await: try / catch / finally.
RefreshSettled(h, response) ==
  IF response = Reject
    THEN [h EXCEPT !.refreshError = "Failed to fetch data",
                   !.isRefreshing = FALSE]
    ELSE LET fetched == extractIntradayData(response)
         IN IF fetched # NULL
              THEN [h EXCEPT !.data = fetched, !.legendValues = NULL,
                             !.isRefreshing = FALSE]
              ELSE [h EXCEPT !.refreshError = "No data found",
                             !.isRefreshing = FALSE]

\* Variant: a failed fallback asks for another one.
AutoFetchSettled_Retries(h, response) ==
  IF response = Reject THEN [h EXCEPT !.needsAutoFetch = TRUE]
  ELSE LET fetched == extractIntradayData(response)
       IN IF fetched # NULL THEN [h EXCEPT !.data = fetched]
          ELSE [h EXCEPT !.needsAutoFetch = TRUE]

\* Variant: a failed fallback reports an error like a failed refresh.
AutoFetchSettled_ShowsError(h, response) ==
  IF response = Reject THEN [h EXCEPT !.refreshError = "Failed to fetch data"]
  ELSE LET fetched == extractIntradayData(response)
       IN IF fetched # NULL THEN [h EXCEPT !.data = fetched]
          ELSE [h EXCEPT !.refreshError = "No data found"]

\* .then / .catch of the auto-fetch fallback.
AutoFetchSettled(h, response) ==
  IF response = Reject THEN h
  ELSE LET fetched == extractIntradayData(response)
       IN IF fetched # NULL THEN [h EXCEPT !.data = fetched] ELSE h

\* Variant: the interval callback refreshes what the symbol field holds.
IntervalCallback_SymbolField(h, t) ==
  handleRefresh(h, "timer", Str(Trim(h.symbolInput)))

\* The callback of interval t: handleRefresh(data.securityId).
IntervalCallback(h, t) == handleRefresh(h, "timer", Num(t.securityId))

handleRefreshClick(h) ==
  IF Trim(h.symbolInput) # <<>>
    THEN handleRefresh(h, "manual", Str(Trim(h.symbolInput)))
    ELSE h

\* Variant: a time that is no bucket start selects the nearest candle
\* before it.
handleCrosshairMove_Nearest(h, cd, lm, time) ==
  IF time # None /\ time[1] \in DOMAIN lm
    THEN [h EXCEPT !.legendValues = lm[time[1]]]
  ELSE IF time # None /\ \E t \in DOMAIN lm : t <= time[1]
    THEN [h EXCEPT !.legendValues =
            lm[CHOOSE t \in DOMAIN lm :
                 t <= time[1] /\ \A u \in DOMAIN lm : u <= time[1] => u <= t]]
  ELSE IF Len(cd) > 0 /\ cd[Len(cd)].time \in DOMAIN lm
    THEN [h EXCEPT !.legendValues = lm[cd[Len(cd)].time]]
  ELSE h

\* time is Some(t) or None (params.time undefined).
handleCrosshairMove(h, cd, lm, time) ==
  IF time # None /\ time[1] \in DOMAIN lm
    THEN [h EXCEPT !.legendValues = lm[time[1]]]
  ELSE IF Len(cd) > 0 /\ cd[Len(cd)].time \in DOMAIN lm
    THEN [h EXCEPT !.legendValues = lm[cd[Len(cd)].time]]
  ELSE h

\* Variant: a timeframe button also refetches what the symbol field names.
TimeframeClicked_Refetches(h, tf) ==
  handleRefresh([h EXCEPT !.selectedTimeframe = tf, !.legendValues = NULL],
                "manual", Str(Trim(h.symbolInput)))

\* Variant: a timeframe button leaves the legend as it is.
TimeframeClicked_KeepsLegend(h, tf) == [h EXCEPT !.selectedTimeframe = tf]

\* onClick of a timeframe button.
TimeframeClicked(h, tf) ==
  [h EXCEPT !.selectedTimeframe = tf, !.legendValues = NULL]

RemoveAt(s, i) == SubSeq(s, 1, i - 1) \o SubSeq(s, i + 1, Len(s))

\* A pointer selection is active on a bucket other than the last one.
Selected ==
  /\ legendValues # NULL
  /\ Len(candleData) > 0
  /\ legendValues # legendMap[candleData[Len(candleData)].time]

Payload(response) ==
  IF response = Reject THEN NULL ELSE extractIntradayData(response)

Outcome(response) ==
  IF response = Reject THEN "rejected"
  ELSE IF extractIntradayData(response) = NULL THEN "nodata"
  ELSE "ok"

(***************************************************************************)
(* scripts/load-json.ts                                                    *)
(***************************************************************************)
BATCH_SIZE == 500

\* flushBatch(batch, retries = 3); main passes no second argument.
Retries == 3

\* Full batches in the longest input.
MaxBatches == 2

\* Lengths of the streamed array: empty, one row, and one row less than,
\* exactly and one row more than each whole number of batches.
RowCounts ==
  {0, 1} \cup {k * BATCH_SIZE + d : k \in 1..MaxBatches, d \in {-1, 0, 1}}

\* process.argv[3]: absent, "1", "501" or "x".
SkipArguments == {None, Some(<<"1">>), Some(<<"5", "0", "1">>), Some(<<"x">>)}

IsDigit(c) == c \in {"0", "1", "2", "3", "4", "5", "6", "7", "8", "9"}

DigitValue(c) ==
  CASE c = "0" -> 0 [] c = "1" -> 1 [] c = "2" -> 2 [] c = "3" -> 3
    [] c = "4" -> 4 [] c = "5" -> 5 [] c = "6" -> 6 [] c = "7" -> 7
    [] c = "8" -> 8 [] c = "9" -> 9

\* The leading decimal digits of s: None without one (NaN), else Some(n).
RECURSIVE ParseDigits(_, _)
ParseDigits(s, acc) ==
  IF s = <<>> \/ ~IsDigit(Head(s)) THEN acc
  ELSE ParseDigits(Tail(s),
                   Some((IF acc = None THEN 0 ELSE acc[1]) * 10
                          + DigitValue(Head(s))))

\* parseInt(s, 10): leading blanks skipped, an optional sign, then digits.
ParseInt(s) ==
  LET t == TrimStart(s)
      negative == t # <<>> /\ Head(t) = "-"
      signed == t # <<>> /\ Head(t) \in {"-", "+"}
      digits == ParseDigits(IF signed THEN Tail(t) ELSE t, None)
  IN IF digits = None THEN None
     ELSE IF negative THEN Some(0 - digits[1]) ELSE digits

\* parseInt(process.argv[3] ?? "0", 10)
SkipRowsOf(argument) ==
  ParseInt(IF argument = None THEN <<"0">> ELSE argument[1])

\* The row built from the value streamed at an index; rows are told apart
\* by the value they come from.
toRow(item) == item

\* main before its loop over an input of rowCount rows.
LoaderStart(rowCount, argument) ==
  [pc |-> "read", rowCount |-> rowCount, skipRows |-> SkipRowsOf(argument),
   rowIndex |-> 0, batch |-> <<>>, totalProcessed |-> 0, totalCreated |-> 0,
   site |-> "", attempt |-> 0, outcome |-> None, thrown |-> None,
   written |-> <<>>]

\* The script is not running.
LoaderIdle == [LoaderStart(0, None) EXCEPT !.pc = "idle"]

\* What createMany settles with: a count of rows created (duplicates are
\* skipped) or an error.
CreateManyOutcomes(batch) ==
  {[ok |-> TRUE, count |-> c, error |-> ""] : c \in {0, Len(batch)}}
    \cup {[ok |-> FALSE, count |-> 0, error |-> e] : e \in {"P1001", "P2024"}}

\* flushBatch is entered from the loop or after it.
FlushCalled(l, site) ==
  [l EXCEPT !.pc = "flush", !.site = site, !.attempt = 1]

\* Variant: a batch is flushed only once it is longer than BATCH_SIZE.
RowRead_FlushesLate(l) ==
  LET i == l.rowIndex + 1
      read == [l EXCEPT !.rowIndex = i, !.outcome = None]
  IN IF l.skipRows # None /\ i <= l.skipRows[1] THEN read
     ELSE LET pushed == [read EXCEPT !.batch = Append(@, toRow(i))]
          IN IF Len(pushed.batch) > BATCH_SIZE
               THEN FlushCalled(pushed, "loop")
               ELSE pushed

\* One iteration of the for await loop up to its first await.
RowRead(l) ==
  LET i == l.rowIndex + 1
      read == [l EXCEPT !.rowIndex = i, !.outcome = None]
  IN IF l.skipRows # None /\ i <= l.skipRows[1] THEN read
     ELSE LET pushed == [read EXCEPT !.batch = Append(@, toRow(i))]
          IN IF Len(pushed.batch) >= BATCH_SIZE
               THEN FlushCalled(pushed, "loop")
               ELSE pushed

\* The stream has ended: flush what remains, or finish.
EndOfStream(l) ==
  IF Len(l.batch) > 0
    THEN FlushCalled([l EXCEPT !.outcome = None], "rest")
    ELSE [l EXCEPT !.pc = "done", !.outcome = None]

\* flushBatch returned count to main.
FlushReturned(l, count) ==
  LET counted == [l EXCEPT !.totalCreated = @ + count,
                           !.totalProcessed = @ + Len(l.batch)]
  IN IF l.site = "loop"
       THEN [counted EXCEPT !.batch = <<>>, !.pc = "read"]
       ELSE [counted EXCEPT !.pc = "done"]

\* Variant: attempt <= retries in the catch block, so the loop ends without
\* a throw and flushBatch returns 0.
FlushAttempt_NoRethrow(l, o) ==
  LET tried == [l EXCEPT !.outcome = Some(o)]
  IN IF o.ok
       THEN FlushReturned([tried EXCEPT !.written = Append(@, l.batch)],
                          o.count)
     ELSE IF l.attempt < Retries
       THEN [tried EXCEPT !.attempt = @ + 1]
     ELSE FlushReturned(tried, 0)

\* One pass of the loop of flushBatch: createMany settles with o.
FlushAttempt(l, o) ==
  LET tried == [l EXCEPT !.outcome = Some(o)]
  IN IF o.ok
       THEN FlushReturned([tried EXCEPT !.written = Append(@, l.batch)],
                          o.count)
     ELSE IF l.attempt < Retries
       THEN [tried EXCEPT !.attempt = @ + 1]
     ELSE [tried EXCEPT !.pc = "aborted", !.thrown = Some(o.error)]

(***************************************************************************)
(* tase-data-hub/fetch-symbols-from-tase-data-hub.ts                       *)
(***************************************************************************)
\* fetchAndStoreSymbols has not been called.
SymbolJobIdle == [pc |-> "idle"]

\* Items in the longest vendor list.
MaxVendorItems == 2

\* A vendor item: its Hebrew ticker and its securityId (the other columns
\* are copied through unchanged).
VendorItem(securityId) ==
  [symbol |-> <<"H", securityId>>, securityId |-> securityId]

VendorItems == {VendorItem(1), VendorItem(2), VendorItem(3)}

\* data.tradeSecuritiesList.result
VendorLists == UNION {[1..n -> VendorItems] : n \in 0..MaxVendorItems}

\* What fetch settles with: a status that is not ok, or a list of items.
FetchResponses ==
  {[ok |-> FALSE, items |-> <<>>]}
    \cup {[ok |-> TRUE, items |-> items] : items \in VendorLists}

\* The DISTINCT ON ("securityId") query: the Latin symbol of each securityId
\* that has end-of-day rows.  In the last one two securities carry the same
\* symbol.
EodRowSets ==
  { <<>>,
    <<[securityId |-> 1, symbol |-> "AAA"]>>,
    <<[securityId |-> 1, symbol |-> "AAA"], [securityId |-> 2, symbol |-> "BBB"]>>,
    <<[securityId |-> 1, symbol |-> "AAA"], [securityId |-> 2, symbol |-> "AAA"]>> }

\* The TaseSymbol table before the call: empty, or rows with Hebrew symbols.
OldTables ==
  { {},
    {[symbol |-> <<"H", 1>>, securityId |-> 1],
     [symbol |-> <<"H", 4>>, securityId |-> 4]} }

\* new Map(eodRows.map((r) => [r.securityId, r.symbol])): a later row
\* replaces an earlier one of the same key.
RECURSIVE MapOfRows(_, _)
MapOfRows(rows, map) ==
  IF rows = <<>> THEN map
  ELSE MapOfRows(Tail(rows),
                 [k \in DOMAIN map \cup {Head(rows).securityId} |->
                    IF k = Head(rows).securityId THEN Head(rows).symbol
                    ELSE map[k]])

\* items.map(...).filter((v) => v.symbol != null)
RECURSIVE ValuesOf(_, _)
ValuesOf(items, securityIdToSymbol) ==
  IF items = <<>> THEN <<>>
  ELSE LET item == Head(items)
           rest == ValuesOf(Tail(items), securityIdToSymbol)
       IN IF item.securityId \in DOMAIN securityIdToSymbol
            THEN <<[symbol |-> securityIdToSymbol[item.securityId],
                    securityId |-> item.securityId]>> \o rest
            ELSE rest

\* The call as far as its first await: the key is read, fetch is called.
SymbolJobCalled(table, apiKey) ==
  [pc |-> IF apiKey THEN "fetch" ELSE "thrown", table |-> table,
   before |-> table, items |-> <<>>, values |-> <<>>, tx |-> None,
   result |-> None]

\* fetch settled with response r.
FetchSettled(j, r) ==
  IF ~r.ok THEN [j EXCEPT !.pc = "thrown"]
  ELSE [j EXCEPT !.pc = "query", !.items = r.items]

\* The query settled with eodRows: values are built and, when there are
\* none, the call returns; else the transaction begins.
QuerySettled(j, eodRows) ==
  LET values == ValuesOf(j.items, MapOfRows(eodRows, <<>>))
  IN IF Len(values) = 0
       THEN [j EXCEPT !.pc = "returned", !.values = values,
                      !.result = Some([fetched |-> Len(j.items),
                                       upserted |-> 0])]
       ELSE [j EXCEPT !.pc = "delete", !.values = values]

\* A statement of the transaction failed: the transaction is rolled back
\* and $transaction rejects.
RolledBack(j) == [j EXCEPT !.pc = "thrown", !.tx = None]

\* Variant: the DELETE runs outside the transaction and is committed at once.
TransactionDelete_Autocommit(j) ==
  [j EXCEPT !.pc = "insert", !.tx = Some({}), !.table = {}]

\* DELETE FROM "TaseSymbol" inside the transaction: the rows are gone for
\* the transaction only.
TransactionDelete(j) == [j EXCEPT !.pc = "insert", !.tx = Some({})]

\* The one INSERT ... ON CONFLICT (symbol) DO UPDATE: PostgreSQL rejects a
\* statement that would affect a row twice, that is two values of the same
\* symbol.
InsertRejected(values) ==
  \E a, b \in 1..Len(values) : a # b /\ values[a].symbol = values[b].symbol

TransactionInsert(j, accepted) ==
  IF accepted /\ ~InsertRejected(j.values)
    THEN [j EXCEPT !.pc = "commit",
                   !.tx = Some({j.values[i] : i \in 1..Len(j.values)})]
    ELSE RolledBack(j)

\* COMMIT: the table becomes what the transaction made of it.
TransactionCommit(j, accepted) ==
  IF accepted
    THEN [j EXCEPT !.pc = "returned", !.table = j.tx[1], !.tx = None,
                   !.result = Some([fetched |-> Len(j.items),
                                    upserted |-> Len(j.values)])]
    ELSE RolledBack(j)

\* Neither the loader script nor the symbol job is running.
ScriptsIdle ==
  /\ loader = LoaderIdle
  /\ symbolJob = SymbolJobIdle

(***************************************************************************)
(* Actions                                                                 *)
(***************************************************************************)
\* The widget as constructed.
WidgetConstructed ==
  /\ data = NULL
  /\ needsAutoFetch = FALSE
  /\ symbolInput = <<>>
  /\ selectedTimeframe = "5m"
  /\ isRefreshing = FALSE
  /\ refreshError = NoError
  /\ legendValues = NULL
  /\ candleData = <<>>
  /\ legendMap = EmptyMap
  /\ inflight = <<>>
  /\ timers = {}
  /\ tornDown = FALSE
  /\ last = Event("init", "", "", NULL, FALSE, None, {}, FALSE)
  /\ aggregated = None

Init ==
  /\ data = NULL
  /\ needsAutoFetch = FALSE
  /\ symbolInput = <<>>
  /\ selectedTimeframe = "5m"
  /\ isRefreshing = FALSE
  /\ refreshError = NoError
  /\ legendValues = NULL
  /\ candleData = <<>>
  /\ legendMap = EmptyMap
  /\ inflight = <<>>
  /\ timers = {}
  /\ tornDown = FALSE
  /\ last = Event("init", "", "", NULL, FALSE, None, {}, FALSE)
  /\ aggregated = None
  /\ ScriptsIdle

\* The host delivers a tool result.
ToolResult ==
  /\ ~tornDown
  /\ \E result \in ToolResults :
       /\ extractIntradayData(result) = NULL => Len(inflight) < MaxInFlight
       /\ Commit(ontoolresult(Hooks, result),
                 "toolresult", "host", Outcome(result),
                 extractIntradayData(result), FALSE)
  /\ UNCHANGED tornDown

\* onChange of the symbol field.
TypeSymbol ==
  /\ ~tornDown
  /\ \E s \in TypedSymbols :
       /\ s # symbolInput
       /\ Commit([Hooks EXCEPT !.symbolInput = s], "type", "user", "", NULL,
                 FALSE)
  /\ UNCHANGED tornDown

\* Enter in the symbol field.
PressEnter ==
  /\ ~tornDown
  /\ Trim(symbolInput) # <<>> => Len(inflight) < MaxInFlight
  /\ Commit(handleRefreshClick(Hooks), "enter", "user", "", NULL, FALSE)
  /\ UNCHANGED tornDown

\* Click on the Refresh button, disabled while isRefreshing.
ClickRefresh ==
  /\ ~tornDown
  /\ ~isRefreshing
  /\ Trim(symbolInput) # <<>> => Len(inflight) < MaxInFlight
  /\ Commit(handleRefreshClick(Hooks), "click", "user", "", NULL, FALSE)
  /\ UNCHANGED tornDown

\* Click on a timeframe button, disabled while isRefreshing.
SelectTimeframe ==
  /\ ~tornDown
  /\ ~isRefreshing
  /\ \E tf \in TimeframeValues :
       Commit(TimeframeClicked(Hooks, tf), "timeframe", "user", "", NULL,
              Selected)
  /\ UNCHANGED tornDown

\* The chart reports a crosshair move; the chart is rendered only when
\* there are candles.
CrosshairMove ==
  /\ ~tornDown
  /\ data # NULL
  /\ Len(candleData) > 0
  /\ \E time \in {None} \cup {Some(candleData[i].time) : i \in 1..Len(candleData)}
                 \cup {Some(candleData[1].time + 1)} :
       Commit(handleCrosshairMove(Hooks, candleData, legendMap, time),
              "crosshair", "user", "", [time |-> time], FALSE)
  /\ UNCHANGED tornDown

\* An interval elapses: its callback calls handleRefresh(data.securityId).
TimerFire ==
  /\ Len(inflight) < MaxInFlight
  /\ \E t \in timers :
       Commit(IntervalCallback(Hooks, t),
              "timer", "timer", "", NULL, FALSE)
  /\ UNCHANGED tornDown

\* The i-th outstanding data request settles.
SettleAt(i) ==
  /\ i \in 1..Len(inflight)
  /\ \E response \in Responses :
       LET origin == inflight[i]
           h == [Hooks EXCEPT !.inflight = RemoveAt(@, i),
                              !.overtook =
                                  Outcome(response) = "ok" /\ i > 1]
       IN Commit(IF origin = "fallback"
                   THEN AutoFetchSettled(h, response)
                   ELSE RefreshSettled(h, response),
                 "settle", origin, Outcome(response), Payload(response),
                 Selected)
  /\ UNCHANGED tornDown

\* A data request settles.
Settle == \E i \in 1..Len(inflight) : SettleAt(i)

\* app.onteardown = async () => ({})
Teardown ==
  /\ ~tornDown
  /\ tornDown' = TRUE
  /\ last' = Event("teardown", "host", "", NULL, FALSE, None, {}, FALSE)
  /\ UNCHANGED <<data, needsAutoFetch, symbolInput, selectedTimeframe,
                 isRefreshing, refreshError, legendValues, candleData,
                 legendMap, inflight, timers, aggregated, loader,
                 symbolJob>>

\* The widget holds a payload that has not been rendered yet.
InitAggregate ==
  /\ \E items \in Payloads : data = WidgetData(SymA, 1, TRUE, items)
  /\ needsAutoFetch = FALSE
  /\ symbolInput = <<>>
  /\ selectedTimeframe \in TimeframeValues
  /\ isRefreshing = FALSE
  /\ refreshError = NoError
  /\ legendValues = NULL
  /\ candleData = <<>>
  /\ legendMap = EmptyMap
  /\ inflight = <<>>
  /\ timers = {}
  /\ tornDown = FALSE
  /\ last = Event("init", "", "", NULL, FALSE, None, {}, FALSE)
  /\ aggregated = None
  /\ ScriptsIdle

\* The widget holds a payload of LegendRecords that has not been rendered.
InitLegend ==
  /\ \E items \in LegendPayloads : data = WidgetData(SymA, 1, TRUE, items)
  /\ needsAutoFetch = FALSE
  /\ symbolInput = <<>>
  /\ selectedTimeframe \in TimeframeValues
  /\ isRefreshing = FALSE
  /\ refreshError = NoError
  /\ legendValues = NULL
  /\ candleData = <<>>
  /\ legendMap = EmptyMap
  /\ inflight = <<>>
  /\ timers = {}
  /\ tornDown = FALSE
  /\ last = Event("init", "", "", NULL, FALSE, None, {}, FALSE)
  /\ aggregated = None
  /\ ScriptsIdle

\* The render of that payload: both memos call aggregateCandles, then the
\* effects run.
RenderPayload ==
  /\ last.op = "init"
  /\ data # NULL
  /\ \E cd \in {CandleDataOf(data, selectedTimeframe)} :
     \E lm \in {LegendMapOf(data, selectedTimeframe)} :
       /\ aggregated' = CandlesOf(data, selectedTimeframe)
       /\ candleData' = cd
       /\ legendMap' = lm
       /\ legendValues' = DefaultLegendEffect(cd, lm, legendValues)
       /\ symbolInput' = SymbolSyncEffect(data, symbolInput)
       /\ timers' = AutoRefreshEffect(NULL, data, timers)
       /\ last' = Event("render", "host", "ok", data, FALSE, None, {}, FALSE)
  /\ UNCHANGED <<data, needsAutoFetch, selectedTimeframe, isRefreshing,
                 refreshError, inflight, tornDown, loader, symbolJob>>

Next ==
  \/ ToolResult
  \/ TypeSymbol
  \/ PressEnter
  \/ ClickRefresh
  \/ SelectTimeframe
  \/ CrosshairMove
  \/ TimerFire
  \/ Settle
  \/ Teardown

Spec == Init /\ [][Next]_vars

\* The refresh lifecycle alone: the timeframe stays at its initial value and
\* the pointer stays off the chart.
NextLifecycle ==
  \/ ToolResult
  \/ TypeSymbol
  \/ PressEnter
  \/ ClickRefresh
  \/ TimerFire
  \/ Settle
  \/ Teardown

SpecLifecycle == Init /\ [][NextLifecycle]_vars

\* The refresh lifecycle when every request settles in the end: the oldest
\* outstanding request is not left unsettled for ever.
SpecLifecycleFair == SpecLifecycle /\ WF_vars(SettleAt(1))

\* The viewer with refreshes from the button and the timer: nothing is typed
\* and the widget is not torn down.
NextView ==
  \/ ToolResult
  \/ ClickRefresh
  \/ SelectTimeframe
  \/ CrosshairMove
  \/ TimerFire
  \/ Settle

SpecView == Init /\ [][NextView]_vars

\* aggregateCandles and the derivations over it, applied to every payload of
\* Payloads at every timeframe.
NextAggregate == RenderPayload

SpecAggregate == InitAggregate /\ [][NextAggregate]_vars

\* The legend index built over every payload of LegendPayloads at every
\* timeframe.
SpecLegend == InitLegend /\ [][NextAggregate]_vars

\* load-json.ts is started on an input of some length with some argv[3].
InitLoader ==
  /\ WidgetConstructed
  /\ \E rowCount \in RowCounts, argument \in SkipArguments :
       loader = LoaderStart(rowCount, argument)
  /\ symbolJob = SymbolJobIdle

\* The stream yields the next value.
LoaderReadRow ==
  /\ loader.pc = "read"
  /\ loader.rowIndex < loader.rowCount
  /\ loader' = RowRead(loader)
  /\ UNCHANGED <<widgetVars, symbolJob>>

\* The stream ends.
LoaderEndOfInput ==
  /\ loader.pc = "read"
  /\ loader.rowIndex = loader.rowCount
  /\ loader' = EndOfStream(loader)
  /\ UNCHANGED <<widgetVars, symbolJob>>

\* The createMany of the flushBatch call in progress settles.
LoaderCreateMany ==
  /\ loader.pc = "flush"
  /\ \E o \in CreateManyOutcomes(loader.batch) :
       loader' = FlushAttempt(loader, o)
  /\ UNCHANGED <<widgetVars, symbolJob>>

NextLoader ==
  \/ LoaderReadRow
  \/ LoaderEndOfInput
  \/ LoaderCreateMany

SpecLoader == InitLoader /\ [][NextLoader]_vars

\* fetchAndStoreSymbols is called on some table, with or without an API key.
InitSymbols ==
  /\ WidgetConstructed
  /\ loader = LoaderIdle
  /\ \E table \in OldTables, apiKey \in BOOLEAN :
       symbolJob = SymbolJobCalled(table, apiKey)

SymbolsFetchSettles ==
  /\ symbolJob.pc = "fetch"
  /\ \E r \in FetchResponses : symbolJob' = FetchSettled(symbolJob, r)
  /\ UNCHANGED <<widgetVars, loader>>

SymbolsQuerySettles ==
  /\ symbolJob.pc = "query"
  /\ \E eodRows \in EodRowSets : symbolJob' = QuerySettled(symbolJob, eodRows)
  /\ UNCHANGED <<widgetVars, loader>>

SymbolsDelete ==
  /\ symbolJob.pc = "delete"
  /\ \/ symbolJob' = TransactionDelete(symbolJob)
     \/ symbolJob' = RolledBack(symbolJob)
  /\ UNCHANGED <<widgetVars, loader>>

SymbolsInsert ==
  /\ symbolJob.pc = "insert"
  /\ \E accepted \in BOOLEAN :
       symbolJob' = TransactionInsert(symbolJob, accepted)
  /\ UNCHANGED <<widgetVars, loader>>

SymbolsCommit ==
  /\ symbolJob.pc = "commit"
  /\ \E accepted \in BOOLEAN :
       symbolJob' = TransactionCommit(symbolJob, accepted)
  /\ UNCHANGED <<widgetVars, loader>>

NextSymbols ==
  \/ SymbolsFetchSettles
  \/ SymbolsQuerySettles
  \/ SymbolsDelete
  \/ SymbolsInsert
  \/ SymbolsCommit

SpecSymbols == InitSymbols /\ [][NextSymbols]_vars

(***************************************************************************)
(* Properties                                                              *)
(***************************************************************************)
Range(seq) == {seq[i] : i \in 1..Len(seq)}

IsRefreshOrigin(origin) == origin \in {"manual", "timer"}

\* The summary of the last candle of the series built from d at timeframe,
\* NULL when that series is empty.
LastCandleLegend(d, timeframe) ==
  IF d = NULL \/ ~d.hasItems THEN NULL
  ELSE LET series == aggregateCandles(d.items, timeframe)
       IN IF series = <<>> THEN NULL
          ELSE LegendValuesOf(series[Len(series)])

\* C1: a manual refresh (Enter in the symbol field or the Refresh button)
\* invoked while an earlier manual refresh has not settled issues no second
\* request and leaves the load state, the raw ticks, the candle series and
\* the selection unchanged.
C1_ManualRefreshSingleFlight ==
  [][(last'.op \in {"enter", "click"} /\ "manual" \in Range(inflight))
       => UNCHANGED <<inflight, isRefreshing, refreshError, data, candleData,
                      legendValues>>]_vars

\* C2: in every reachable state at most one data request is outstanding,
\* manual refreshes, timer firings and fallback fetches counted together.
C2_AtMostOneOutstanding == Len(inflight) <= 1

\* C3: a tool result from which nothing is extracted issues exactly one
\* fallback request with empty arguments, and a fallback that fails (rejected
\* or unparseable) issues no further request.
C3_OneFallbackNoRetry ==
  [][/\ (last'.op = "toolresult" /\ last'.outcome = "nodata")
          => /\ inflight' = Append(inflight, "fallback")
             /\ last'.request = Some(Request("fallback", <<>>))
             /\ needsAutoFetch' = FALSE
     /\ (last'.op = "settle" /\ last'.origin = "fallback"
           /\ last'.outcome # "ok")
          => /\ Len(inflight') = Len(inflight) - 1
             /\ last'.request = None
             /\ needsAutoFetch' = FALSE]_vars

\* C3 witness: the one fallback issued for an unparseable result was
\* rejected and nothing is outstanding afterwards.
C3_Witness ==
  /\ last.op = "settle"
  /\ last.origin = "fallback"
  /\ last.outcome = "rejected"
  /\ inflight = <<>>
  /\ data = NULL

\* C4: when a manual or periodic refresh fails, the state becomes Error with
\* a message and the raw ticks, the timeframe and the candle series are
\* unchanged.
C4_RefreshFailureKeepsData ==
  [][(last'.op = "settle" /\ IsRefreshOrigin(last'.origin)
        /\ last'.outcome # "ok")
       => /\ LoadState' = "Error"
          /\ refreshError' \in {"Failed to fetch data", "No data found"}
          /\ UNCHANGED <<data, selectedTimeframe, candleData, legendMap>>]_vars

\* C4 witness: a refresh was rejected while candles of loaded data were on
\* display at a timeframe other than the initial one.
C4_Witness ==
  /\ last.op = "settle"
  /\ IsRefreshOrigin(last.origin)
  /\ last.outcome = "rejected"
  /\ refreshError = "Failed to fetch data"
  /\ data # NULL
  /\ Len(candleData) > 0
  /\ selectedTimeframe = "1m"

\* C5: when the fallback fetch fails, no error message is set and the data
\* is left as it was; a widget that was WaitingForData stays so.
C5_FallbackFailureSilent ==
  [][(last'.op = "settle" /\ last'.origin = "fallback"
        /\ last'.outcome # "ok")
       => /\ UNCHANGED <<data, refreshError, isRefreshing>>
          /\ (LoadState = "WaitingForData" => LoadState' = "WaitingForData")]_vars

\* C5 witness: the fallback returned an unparseable payload and the widget
\* still waits for data, with no error.
C5_Witness ==
  /\ last.op = "settle"
  /\ last.origin = "fallback"
  /\ last.outcome = "nodata"
  /\ LoadState = "WaitingForData"
  /\ refreshError = NoError

\* C6: after a successful manual or periodic refresh the data held is the
\* fetched payload and the legend is the summary of the last candle of the
\* series built from it (null when that series is empty), whatever was
\* selected when the response arrived.
C6_RefreshSuccessResetsSelection ==
  (last.op = "settle" /\ IsRefreshOrigin(last.origin) /\ last.outcome = "ok")
    => /\ data = last.payload
       /\ legendValues = LastCandleLegend(data, selectedTimeframe)

\* C6 witness: a refresh succeeded with candles while the pointer selected a
\* bucket other than the last one.
C6_Witness ==
  /\ last.op = "settle"
  /\ IsRefreshOrigin(last.origin)
  /\ last.outcome = "ok"
  /\ last.selected
  /\ Len(candleData) > 1
  /\ legendValues # NULL

\* C7: after the widget is torn down no data request is issued.
C7_NoRequestAfterTeardown == tornDown => last.request = None

\* C8: at most one interval is active, it is the one created for the
\* security now loaded, the intervals an event cleared are no longer active,
\* and an interval that fires is an active one.
C8_AtMostOneTimer ==
  /\ Cardinality(timers) <= 1
  /\ \A t \in timers :
       data # NULL /\ t.symbol = data.symbol /\ t.securityId = data.securityId
  /\ last.cleared \cap timers = {}
  /\ last.op = "timer"
       => \E t \in timers :
            last.request = Some(Request("timer", <<Num(t.securityId)>>))

\* C8 witness: the loaded security changed, the interval of the previous one
\* was cleared and one for the new security is active.
C8_Witness ==
  /\ last.cleared # {}
  /\ timers # {}
  /\ \A t \in timers : t.securityId = data.securityId

\* C9: a request issued by the timer carries the security identifier of the
\* data loaded when it fires: not the symbol field, not an empty argument
\* set.
C9_TimerCarriesSecurityId ==
  last.op = "timer"
    => /\ data # NULL
       /\ last.request = Some(Request("timer", <<Num(data.securityId)>>))

\* C9 witness: the timer fired while the symbol field named another
\* security than the one loaded.
C9_Witness ==
  /\ last.op = "timer"
  /\ data # NULL
  /\ data.symbol = SymA
  /\ Trim(symbolInput) = SymB
  /\ last.request = Some(Request("timer", <<Num(1)>>))

\* C10: whenever data is loaded and the widget is not torn down, an interval
\* of 1800 seconds is active.
C10_TimerWheneverLoaded ==
  (data # NULL /\ ~tornDown)
    => /\ timers # {}
       /\ \A t \in timers : t.period = 1800 * 1000

\* C11: a change of the selected timeframe issues no data request and leaves
\* the raw ticks, the load state, the error message, the outstanding
\* requests, the intervals and the symbol field unchanged; only the
\* timeframe, the candle series, the legend index and the selection change.
C11_TimeframeChangeFrame ==
  [][(last'.op = "timeframe")
       => /\ last'.request = None
          /\ last'.cleared = {}
          /\ LoadState' = LoadState
          /\ UNCHANGED <<data, refreshError, isRefreshing, needsAutoFetch,
                         inflight, timers, symbolInput>>]_vars

\* C11 witness: the timeframe went to 1m over loaded ticks; the series now
\* has one candle per minute traded and the legend shows the last of them.
C11_Witness ==
  /\ last.op = "timeframe"
  /\ selectedTimeframe = "1m"
  /\ data = DataA1
  /\ Len(candleData) = 3
  /\ legendValues = LastCandleLegend(data, "1m")

\* C12: in every reachable state the candle series is the aggregation of the
\* raw ticks now held at the timeframe now selected, and the legend index
\* has exactly one entry per candle of that series, keyed by its bucket
\* start and holding its summary; both are empty while no ticks are held.
C12_DerivedViewCurrent ==
  LET held == IF data = NULL \/ ~data.hasItems THEN <<>> ELSE data.items
      series == aggregateCandles(held, selectedTimeframe)
  IN /\ Len(candleData) = Len(series)
     /\ \A i \in 1..Len(series) :
          /\ candleData[i].time = series[i].time
          /\ candleData[i].open = series[i].open
          /\ candleData[i].high = series[i].high
          /\ candleData[i].low = series[i].low
          /\ candleData[i].close = series[i].close
          /\ series[i].time \in DOMAIN legendMap
          /\ legendMap[series[i].time] = LegendValuesOf(series[i])
     /\ DOMAIN legendMap = {series[i].time : i \in 1..Len(series)}
     /\ Cardinality(DOMAIN legendMap) = Len(series)
     /\ held = <<>> => candleData = <<>> /\ legendMap = EmptyMap

\* C12 witness: a refresh brought the ticks of another security while a
\* timeframe other than the initial one was selected, and their candles are
\* on display.
C12_Witness ==
  /\ last.op = "settle"
  /\ last.outcome = "ok"
  /\ data = DataB
  /\ selectedTimeframe = "1h"
  /\ Len(candleData) = 2
  /\ candleData[1].close = 50

\* The payload of the state has been rendered: Series is what
\* aggregateCandles returned for data.items at selectedTimeframe.
Rendered == last.op = "render" /\ aggregated # None

Series == aggregated[1]

\* C13: every candle aggregateCandles returns has low <= open <= high and
\* low <= close <= high.
C13_OhlcOrdered ==
  Rendered
    => \A i \in 1..Len(Series) :
         /\ Series[i].low <= Series[i].open
         /\ Series[i].open <= Series[i].high
         /\ Series[i].low <= Series[i].close
         /\ Series[i].close <= Series[i].high

\* C13 witness: a candle of three trades whose open lies strictly between
\* its low and its high.
C13_Witness ==
  /\ Rendered
  /\ \E i \in 1..Len(Series) :
       /\ Series[i].low < Series[i].open
       /\ Series[i].open < Series[i].high
       /\ Series[i].close = Series[i].high

\* The records the normalisation is meant to keep, and their timestamps in
\* seconds, stated from the record fields alone.
IsTimeOfDay(t) ==
  \/ t.h \in 0..23 /\ t.m \in 0..59 /\ t.s \in 0..59
  \/ t.h = 24 /\ t.m = 0 /\ t.s = 0

IsKept(item) ==
  /\ item.lastSaleTime # None
  /\ item.date # None
  /\ item.securityLastPrice # None
  /\ IsTimeOfDay(item.lastSaleTime[1])

SecondsOf(item) ==
  item.date[1] * 86400 + item.lastSaleTime[1].h * 3600
    + item.lastSaleTime[1].m * 60 + item.lastSaleTime[1].s

Kept(items) == SelectSeq(items, IsKept)

BucketLength(tf) ==
  CASE tf = "1m" -> 60
    [] tf = "3m" -> 180
    [] tf = "5m" -> 300
    [] tf = "10m" -> 600
    [] tf = "30m" -> 1800
    [] tf = "1h" -> 3600

\* C14: the bucket length is 60, 180, 300, 600, 1800, 3600 seconds for 1m,
\* 3m, 5m, 10m, 30m, 1h; every candle's bucket start is a multiple of it,
\* every kept tick lies in [start, start + length) of a candle and every
\* candle holds such a tick.
C14_BucketAlignment ==
  /\ \A tf \in TimeframeValues : TIMEFRAME_MINUTES(tf) * 60 = BucketLength(tf)
  /\ Rendered
       => LET length == BucketLength(selectedTimeframe)
              kept == Kept(data.items)
              Holds(i, k) ==
                /\ Series[i].time <= SecondsOf(kept[k])
                /\ SecondsOf(kept[k]) < Series[i].time + length
          IN /\ \A i \in 1..Len(Series) : Series[i].time % length = 0
             /\ \A k \in 1..Len(kept) : \E i \in 1..Len(Series) : Holds(i, k)
             /\ \A i \in 1..Len(Series) : \E k \in 1..Len(kept) : Holds(i, k)

\* C14 witness: at 3m the trade of 09:35:00 lies inside the bucket that
\* starts at 09:33:00, after the bucket of 09:30:00.
C14_Witness ==
  /\ Rendered
  /\ selectedTimeframe = "3m"
  /\ Len(Series) = 2
  /\ Series[1].time = 34200
  /\ Series[2].time = 34380
  /\ Series[2].open = 99

\* C15: the series aggregateCandles returns is strictly increasing by bucket
\* start, so no two candles share one, whatever the order of the records.
C15_StrictlyIncreasing ==
  Rendered
    => \A i, j \in 1..Len(Series) : i < j => Series[i].time < Series[j].time

\* C15 witness: the records came latest first with an earlier trade repeated
\* at the end, and the series has two candles in time order.
C15_Witness ==
  /\ Rendered
  /\ selectedTimeframe = "5m"
  /\ data.items = <<Tick(9, 35, 0, 99, Some(7)), Tick(9, 30, 0, 100, Some(10)),
                    Tick(9, 35, 0, 99, Some(7))>>
  /\ Len(Series) = 2
  /\ Series[1].time = 34200
  /\ Series[2].time = 34500
  /\ Series[2].volume = 14

\* Reference aggregate of a bucket: the positions in kept of the ticks whose
\* timestamp lies in [start, start + length), their prices and the sum of
\* their volumes (a missing volume counts 0).
InBucket(kept, start, length) ==
  {k \in 1..Len(kept) :
     start <= SecondsOf(kept[k]) /\ SecondsOf(kept[k]) < start + length}

PriceOf(item) == item.securityLastPrice[1]

VolumeOf(item) ==
  IF item.lastSellVolume = None THEN 0 ELSE item.lastSellVolume[1]

RECURSIVE SumVolume(_, _)
SumVolume(kept, ks) ==
  IF ks = {} THEN 0
  ELSE LET k == CHOOSE x \in ks : TRUE
       IN VolumeOf(kept[k]) + SumVolume(kept, ks \ {k})

Earliest(kept, ks) ==
  {k \in ks : \A j \in ks : SecondsOf(kept[k]) <= SecondsOf(kept[j])}

Latest(kept, ks) ==
  {k \in ks : \A j \in ks : SecondsOf(kept[k]) >= SecondsOf(kept[j])}

Scenario5m ==
  <<Tick(9, 30, 0, 100, Some(10)), Tick(9, 31, 30, 101, Some(5)),
    Tick(9, 35, 0, 99, Some(7))>>

\* C16: each candle is the reference aggregate of the kept ticks of its
\* bucket (open the price of an earliest one, close of a latest one, high
\* the maximum and low the minimum price, volume the sum of the volumes),
\* there is one candle per bucket holding a kept tick, and the 5m scenario
\* gives 100/101/100/101/15 and 99/99/99/99/7.
C16_ReferenceAggregate ==
  Rendered
    => LET length == BucketLength(selectedTimeframe)
           kept == Kept(data.items)
           buckets == {SecondsOf(kept[k]) \div length : k \in 1..Len(kept)}
       IN /\ Len(Series) = Cardinality(buckets)
          /\ {Series[i].time : i \in 1..Len(Series)}
               = {b * length : b \in buckets}
          /\ \A i \in 1..Len(Series) :
               LET ks == InBucket(kept, Series[i].time, length)
                   prices == {PriceOf(kept[k]) : k \in ks}
               IN /\ ks # {}
                  /\ Series[i].open
                       \in {PriceOf(kept[k]) : k \in Earliest(kept, ks)}
                  /\ Series[i].close
                       \in {PriceOf(kept[k]) : k \in Latest(kept, ks)}
                  /\ Series[i].high \in prices
                  /\ \A p \in prices : p <= Series[i].high
                  /\ Series[i].low \in prices
                  /\ \A p \in prices : p >= Series[i].low
                  /\ Series[i].volume = SumVolume(kept, ks)
          /\ (data.items = Scenario5m /\ selectedTimeframe = "5m")
               => Series = <<Candle(34200, 100, 101, 100, 101, 15),
                             Candle(34500, 99, 99, 99, 99, 7)>>

\* C16 witness: the 5m scenario has been aggregated into its two candles.
C16_Witness ==
  /\ Rendered
  /\ data.items = Scenario5m
  /\ selectedTimeframe = "5m"
  /\ Len(Series) = 2
  /\ Series[1].volume = 15
  /\ Series[2].close = 99

\* C17: a payload with no record, or with no record that is kept, renders
\* to an empty candle series and an empty legend index at every timeframe,
\* and the default legend stays null.
C17_EmptyInputEmptyView ==
  (Rendered /\ \A k \in 1..Len(data.items) : ~IsKept(data.items[k]))
    => /\ Series = <<>>
       /\ candleData = <<>>
       /\ legendMap = EmptyMap
       /\ legendValues = NULL

\* C17 witness: three records, none of them kept (no time, no price, a
\* time that does not parse), rendered at 1h.
C17_Witness ==
  /\ Rendered
  /\ selectedTimeframe = "1h"
  /\ Len(data.items) = 3
  /\ data.items[1].lastSaleTime = None
  /\ data.items[2].securityLastPrice = None
  /\ data.items[3].lastSaleTime = Some(HMS(25, 0, 0))
  /\ candleData = <<>>
  /\ legendValues = NULL

\* C18: records without a time of day, a date or a price, or whose date and
\* time do not parse, are dropped: the series is the one aggregateCandles
\* returns for the kept records alone.
C18_InvalidRecordsDropped ==
  Rendered
    => /\ Series = aggregateCandles(Kept(data.items), selectedTimeframe)
       /\ \A i \in 1..Len(Series) :
            InBucket(Kept(data.items), Series[i].time,
                     BucketLength(selectedTimeframe)) # {}
       /\ Kept(data.items) # <<>> => Series # <<>>

\* C18 witness: a trade between a record without a date and a record
\* without a price gives the one candle of that trade alone.
C18_Witness ==
  /\ Rendered
  /\ Len(data.items) = 3
  /\ data.items[1].date = None
  /\ data.items[2] = Tick(9, 35, 0, 99, Some(7))
  /\ data.items[3].securityLastPrice = None
  /\ Series = <<Candle(BucketOf(34500, BucketLength(selectedTimeframe)),
                        99, 99, 99, 99, 7)>>

\* C19: records with equal timestamps keep their input order: the open of a
\* candle is the price of the first in the input of the earliest ticks of
\* its bucket, the close the price of the last in the input of the latest.
C19_TiesKeepInputOrder ==
  Rendered
    => \A i \in 1..Len(Series) :
         LET kept == Kept(data.items)
             ks == InBucket(kept, Series[i].time,
                            BucketLength(selectedTimeframe))
             first == CHOOSE k \in Earliest(kept, ks) :
                        \A j \in Earliest(kept, ks) : k <= j
             final == CHOOSE k \in Latest(kept, ks) :
                        \A j \in Latest(kept, ks) : k >= j
         IN /\ Series[i].open = PriceOf(kept[first])
            /\ Series[i].close = PriceOf(kept[final])

\* C19 witness: two trades of the same second at different prices, alone
\* in their bucket: the first gives the open, the second the close.
C19_Witness ==
  /\ Rendered
  /\ selectedTimeframe = "1m"
  /\ data.items = <<Tick(9, 31, 30, 101, Some(5)), Tick(9, 31, 30, 98, None)>>
  /\ Series = <<Candle(34260, 101, 101, 98, 98, 5)>>

\* C20: a crosshair move at a time that is a bucket start of the current
\* series sets the legend to the summary of that candle; at any other time,
\* or with no time, it sets the legend to the summary of the last candle;
\* over an empty series it leaves the legend as it is.  The series, the
\* legend index, the ticks and the timeframe do not change.
C20_CrosshairLookup ==
  [][(last'.op = "crosshair")
       => LET t == last'.payload.time
              hit == {i \in 1..Len(Series) :
                        t # None /\ Series[i].time = t[1]}
          IN /\ UNCHANGED <<data, selectedTimeframe, candleData, legendMap,
                            aggregated>>
             /\ hit # {}
                  => \A i \in hit : legendValues' = LegendValuesOf(Series[i])
             /\ (hit = {} /\ Len(Series) > 0)
                  => legendValues' = LegendValuesOf(Series[Len(Series)])
             /\ \A time \in {None, Some(34200)} :
                  handleCrosshairMove(Hooks, <<>>, EmptyMap, time).legendValues
                    = legendValues]_vars

\* C20 witness: the crosshair reported a time one second after the first
\* bucket start of a series of several candles, and the legend shows the
\* last candle, not the first.
C20_Witness ==
  /\ last.op = "crosshair"
  /\ Len(candleData) > 1
  /\ last.payload.time = Some(candleData[1].time + 1)
  /\ legendValues = LegendValuesOf(Series[Len(Series)])
  /\ legendValues # LegendValuesOf(Series[1])

\* C21: after a timeframe change the legend is the summary of the last
\* candle of the series aggregated at the new timeframe, null when that
\* series is empty, whatever was selected before.
C21_TimeframeResetsSelection ==
  last.op = "timeframe"
    => legendValues = LastCandleLegend(data, selectedTimeframe)

\* C21 witness: the timeframe changed while the pointer selected a bucket
\* other than the last one, and the legend shows the last candle of the
\* new series.
C21_Witness ==
  /\ last.op = "timeframe"
  /\ last.selected
  /\ selectedTimeframe = "1m"
  /\ Len(candleData) = 3
  /\ legendValues = LegendValuesOf(Series[3])

\* C22: a manual refresh (Enter or the Refresh button) invoked while no
\* request is outstanding makes the widget Refreshing and issues exactly one
\* request, which carries the trimmed symbol typed when there is one and no
\* identifier when the symbol field is blank.
C22_ManualRefreshIssuesRequest ==
  [][(last'.op \in {"enter", "click"} /\ inflight = <<>>)
       => /\ LoadState' = "Refreshing"
          /\ inflight' = <<"manual">>
          /\ last'.request
               = Some(Request("manual",
                              IF Trim(symbolInput) # <<>>
                                THEN <<Str(Trim(symbolInput))>>
                                ELSE <<>>))]_vars

\* C23: when a tool result delivered by the host is extracted, the widget is
\* Loaded, the data held is the extracted payload, and no fallback request
\* is issued for it, whatever the state was before.
C23_HostResultLoads ==
  (last.op = "toolresult" /\ last.outcome = "ok")
    => /\ LoadState = "Loaded"
       /\ data = last.payload
       /\ last.request = None
       /\ needsAutoFetch = FALSE

\* Enter issues a manual request; the user types a symbol that is not blank.
EnterIssuesRequest == PressEnter /\ last'.request # None

TypeNonBlank == TypeSymbol /\ Trim(symbolInput') # <<>>

C25_ErrorRecoverable ==
  [][/\ (last'.op \in {"enter", "click"} /\ LoadState = "Error")
          => refreshError' = NoError
     /\ (/\ last'.op = "settle"
         /\ last'.outcome = "ok"
         /\ inflight = <<"manual">>
         /\ isRefreshing
         /\ refreshError = NoError)
          => /\ LoadState' = "Loaded"
             /\ data' = last'.payload
             /\ refreshError' = NoError]_vars

FallbacksOutstanding ==
  Cardinality({i \in 1..Len(inflight) : inflight[i] = "fallback"})

FallbackIssued == last.request = Some(FallbackRequest)

\* C26: at most one fallback request is issued in the life of a widget: two
\* fallback requests are never outstanding together, and once the event that
\* issued a fallback request is past, no later event issues one.
C26_FallbackSingleShot ==
  /\ [](FallbacksOutstanding <= 1)
  /\ [](FallbackIssued => [](~FallbackIssued => []~FallbackIssued))

DisplayedLegend ==
  IF data # NULL /\ candleData # <<>> THEN legendValues ELSE NULL

\* C29: the legend displayed is null or the summary of a candle of the
\* current legend index.
C29_LegendFromCurrentIndex ==
  \/ DisplayedLegend = NULL
  \/ \E t \in DOMAIN legendMap : legendMap[t] = DisplayedLegend

\* C30: isRefreshing is true exactly when a manual or a periodic request is
\* outstanding.
C30_RefreshingIffOutstanding ==
  isRefreshing <=> \E i \in 1..Len(inflight) : IsRefreshOrigin(inflight[i])

\* C27: every candle aggregateCandles returns has a volume of zero or more,
\* for every payload whose records it accepts on date, time and price.
C27_VolumeNonNegative ==
  Rendered => \A i \in 1..Len(Series) : Series[i].volume >= 0

\* C31: a response to an earlier request never overwrites the data of a
\* request issued after it.  When a request settled with a payload ahead of
\* the one request still outstanding, which was issued before it, and that
\* one settles next, so that every request has resolved, the data held is
\* still the payload of the request issued last.
C31_LatestRequestWins ==
  [][(/\ last.op = "settle"
      /\ last.overtook
      /\ Len(inflight) = 1
      /\ last'.op = "settle")
       => data' = last.payload]_vars

\* C32: data held by the widget carries an items array: a payload that
\* parses but has no items array is never stored as loaded data.
C32_LoadedDataHasItems == data # NULL => data.hasItems

RECURSIVE TotalVolume(_)
TotalVolume(series) ==
  IF series = <<>> THEN 0
  ELSE Head(series).volume + TotalVolume(Tail(series))

\* C33: the volumes of the candles add up to the volumes of the kept ticks,
\* a kept tick without a volume counting 0.
C33_VolumeConserved ==
  Rendered
    => LET kept == Kept(data.items)
       IN TotalVolume(Series) = SumVolume(kept, 1..Len(kept))

\* C33 witness: three kept ticks in two 5m buckets, given latest first, one
\* of them without a volume; the candles carry 10 + 0 + 7.
C33_Witness ==
  /\ Rendered
  /\ selectedTimeframe = "5m"
  /\ data.items = <<Tick(9, 35, 0, 99, Some(7)), Tick(9, 31, 30, 98, None),
                    Tick(9, 30, 0, 100, Some(10))>>
  /\ Len(Series) = 2
  /\ TotalVolume(Series) = 17

DistinctTimestamps(items) ==
  LET kept == Kept(items)
  IN \A j, k \in 1..Len(kept) :
       j # k => SecondsOf(kept[j]) # SecondsOf(kept[k])

Permuted(items, p) == [i \in 1..Len(items) |-> items[p[i]]]

\* C34: for records whose kept timestamps are pairwise distinct, every
\* permutation of the input gives the same candle series.
C34_OrderIndependent ==
  (Rendered /\ DistinctTimestamps(data.items))
    => \A p \in Permutations(1..Len(data.items)) :
         aggregateCandles(Permuted(data.items, p), selectedTimeframe) = Series

\* C34 witness: three trades at distinct seconds given out of time order
\* produce the two 5m candles of the ordered scenario.
C34_Witness ==
  /\ Rendered
  /\ selectedTimeframe = "5m"
  /\ data.items = <<Tick(9, 35, 0, 99, Some(7)), Tick(9, 31, 30, 101, Some(5)),
                    Tick(9, 30, 0, 100, Some(10))>>
  /\ DistinctTimestamps(data.items)
  /\ Series = aggregateCandles(Scenario5m, "5m")
  /\ Len(Series) = 2

\* The candles of a finer series grouped by the bucket of a coarser length:
\* first open, last close, maximum high, minimum low, summed volume.
RECURSIVE CoarsenLoop(_, _, _, _, _)
CoarsenLoop(fine, i, length, cur, coarse) ==
  IF i > Len(fine) THEN Append(coarse, cur)
  ELSE LET c == fine[i]
           start == (c.time \div length) * length
       IN IF start # cur.time
            THEN CoarsenLoop(fine, i + 1, length,
                             Candle(start, c.open, c.high, c.low, c.close,
                                    c.volume),
                             Append(coarse, cur))
            ELSE CoarsenLoop(fine, i + 1, length,
                             Candle(cur.time, cur.open, Max(cur.high, c.high),
                                    Min(cur.low, c.low), c.close,
                                    cur.volume + c.volume),
                             coarse)

Coarsen(fine, length) ==
  IF fine = <<>> THEN <<>>
  ELSE CoarsenLoop(fine, 2, length,
                   Candle((fine[1].time \div length) * length, fine[1].open,
                          fine[1].high, fine[1].low, fine[1].close,
                          fine[1].volume),
                   <<>>)

CoarserPairs ==
  {<<"1m", "3m">>, <<"1m", "5m">>, <<"1m", "10m">>, <<"1m", "30m">>,
   <<"1m", "1h">>, <<"3m", "30m">>, <<"3m", "1h">>, <<"5m", "30m">>,
   <<"5m", "1h">>, <<"10m", "30m">>, <<"10m", "1h">>, <<"5m", "10m">>,
   <<"30m", "1h">>}

\* C35: the pairs of timeframes of which the second bucket length is a
\* proper multiple of the first are those listed, and for each of them the
\* series at the coarser timeframe is the finer series grouped by coarser
\* bucket with first open, last close, maximum high, minimum low and summed
\* volume.
C35_CoarseningConsistent ==
  /\ CoarserPairs
       = {p \in TimeframeValues \X TimeframeValues :
            /\ p[1] # p[2]
            /\ TIMEFRAME_MINUTES(p[2]) % TIMEFRAME_MINUTES(p[1]) = 0}
  /\ Rendered
       => \A p \in CoarserPairs :
            p[1] = selectedTimeframe
              => aggregateCandles(data.items, p[2])
                   = Coarsen(Series, BucketLength(p[2]))

\* C35 witness: the three 1m candles of the scenario regroup into its two
\* 5m candles and into one 10m candle.
C35_Witness ==
  /\ Rendered
  /\ selectedTimeframe = "1m"
  /\ data.items = Scenario5m
  /\ Len(Series) = 3
  /\ Coarsen(Series, 300) = <<Candle(34200, 100, 101, 100, 101, 15),
                              Candle(34500, 99, 99, 99, 99, 7)>>
  /\ Coarsen(Series, 600) = <<Candle(34200, 100, 101, 99, 99, 22)>>

Sign(n) == IF n > 0 THEN 1 ELSE IF n < 0 THEN -1 ELSE 0

\* The sign of the change percentage num/den.
ChangeSign(change) == Sign(change.num) * Sign(change.den)

\* C36 as stated: in every legend index entry the change percentage is null
\* exactly when the open is 0, and otherwise has the sign of close - open.
C36_ChangeSignAsStated ==
  Rendered
    => \A t \in DOMAIN legendMap :
         LET e == legendMap[t]
         IN /\ e.change = None <=> e.open = 0
            /\ e.change # None
                 => ChangeSign(e.change[1]) = Sign(e.close - e.open)

\* C36 amended: in every legend index entry the change percentage is null
\* exactly when the open is 0; when the open is above 0 it has the sign of
\* close - open and when the open is below 0 it has the opposite sign (0
\* when close = open).
C36_ChangeSign ==
  Rendered
    => \A t \in DOMAIN legendMap :
         LET e == legendMap[t]
         IN /\ e.change = None <=> e.open = 0
            /\ e.change # None
                 => ChangeSign(e.change[1])
                      = Sign(e.close - e.open) * Sign(e.open)

\* C36 witness: a 1m index with an entry whose open is 0 and change null
\* and an entry rising from -20 to -10 whose change is below 0.
C36_Witness ==
  /\ Rendered
  /\ selectedTimeframe = "1m"
  /\ Len(data.items) = 3
  /\ \E t \in DOMAIN legendMap :
       /\ legendMap[t].open = 0
       /\ legendMap[t].change = None
  /\ \E t \in DOMAIN legendMap :
       /\ legendMap[t].open = -20
       /\ legendMap[t].close = -10
       /\ legendMap[t].change # None
       /\ ChangeSign(legendMap[t].change[1]) = -1

\* C37: flushBatch calls createMany at most 3 times; an attempt that
\* succeeds ends the call, which returns that attempt's count; a failed
\* first or second attempt is followed by another attempt of the same batch
\* with nothing written; a failed third attempt ends the call with that
\* failure thrown and no count returned.
C37_FlushBatchRetries ==
  [][(loader.pc = "flush" /\ loader' # loader)
       => LET o == loader'.outcome[1]
          IN /\ loader.attempt \in 1..3
             /\ o.ok
                  => /\ loader'.pc \in {"read", "done"}
                     /\ loader'.totalCreated = loader.totalCreated + o.count
                     /\ loader'.thrown = None
             /\ (~o.ok /\ loader.attempt < 3)
                  => /\ loader'.pc = "flush"
                     /\ loader'.attempt = loader.attempt + 1
                     /\ loader'.batch = loader.batch
                     /\ loader'.written = loader.written
                     /\ loader'.totalCreated = loader.totalCreated
             /\ (~o.ok /\ loader.attempt = 3)
                  => /\ loader'.pc = "aborted"
                     /\ loader'.thrown = Some(o.error)
                     /\ loader'.written = loader.written
                     /\ loader'.totalCreated = loader.totalCreated]_vars

\* C37 witness: the third attempt of a batch failed with P2024 and the
\* script stopped on that error, a batch having been written before.
C37_Witness ==
  /\ loader.pc = "aborted"
  /\ loader.attempt = 3
  /\ loader.thrown = Some("P2024")
  /\ Len(loader.written) = 1

\* How many of the first values are skipped (a skipRows that is not a
\* number or is below 1 skips none).
SkippedRows(l) ==
  IF l.skipRows = None THEN 0 ELSE Min(Max(l.skipRows[1], 0), l.rowCount)

\* The k-th row after the skipped ones, in input order.
RowAfterSkipped(l, k) == toRow(SkippedRows(l) + k)

RECURSIVE RowsWritten(_)
RowsWritten(batches) ==
  IF batches = <<>> THEN 0 ELSE Len(Head(batches)) + RowsWritten(Tail(batches))

\* C38: the rows written by successful batch writes are, in input order and
\* each once, the rows after the first skipRows; every batch written has at
\* most 500 rows and every batch but the last exactly 500; on normal
\* completion every such row is written, the remainder after the last full
\* batch included, and totalProcessed is the number of rows read less the
\* skipped ones; when a batch failed all its attempts the run has stopped
\* with the error, and neither that batch nor a later row is written.  The
\* rows written change only when a batch write settles, so their contents
\* are compared in the states a settled write leads to.
C38_LoaderWritesEveryRowOnce ==
  loader.pc # "idle"
    => LET count == RowsWritten(loader.written)
           due == loader.rowCount - SkippedRows(loader)
       IN /\ \A b \in 1..Len(loader.written) :
               /\ Len(loader.written[b]) \in 1..500
               /\ b < Len(loader.written) => Len(loader.written[b]) = 500
               /\ loader.outcome # None
                    => \A j \in 1..Len(loader.written[b]) :
                         loader.written[b][j]
                           = RowAfterSkipped(loader, 500 * (b - 1) + j)
          /\ count <= due
          /\ loader.totalProcessed = count
          /\ loader.pc = "done"
               => /\ count = due
                  /\ loader.rowIndex = loader.rowCount
                  /\ loader.totalProcessed = due
                  /\ loader.thrown = None
          /\ loader.pc = "aborted"
               => /\ loader.thrown # None
                  /\ loader.batch # <<>>
                  /\ count + Len(loader.batch) <= due
                  /\ \A j \in 1..Len(loader.batch) :
                       loader.batch[j] = RowAfterSkipped(loader, count + j)
                  /\ ~ENABLED NextLoader

\* C38 witness: 1000 rows with the first skipped were written as a batch of
\* 500 and a final batch of 499.
C38_Witness ==
  /\ loader.pc = "done"
  /\ loader.rowCount = 1000
  /\ loader.skipRows = Some(1)
  /\ Len(loader.written) = 2
  /\ Len(loader.written[2]) = 499
  /\ loader.written[1][1] = toRow(2)
  /\ loader.totalProcessed = 999

\* The rows of the vendor items whose securityId has a Latin symbol among
\* the values built; what the table holds after a replacement.
MatchedRows(j) ==
  {r \in {j.values[i] : i \in 1..Len(j.values)} :
     \E k \in 1..Len(j.items) : j.items[k].securityId = r.securityId}

====
